---- MODULE Spec2Model ----
(***************************************************************************)
(* Model of Pandas/WebApp/main.py: the in-memory Dataset Store (D1, D2,    *)
(* D3), the Filter Engine (filter_d1, filter_d2_by_d1), the Aggregation    *)
(* Engine (build_avg_time_series) and the two JSON handlers (get_filters,  *)
(* get_data).                                                              *)
(*                                                                         *)
(* A DataFrame is a record                                                 *)
(*     [columns : sequence of column names,                                *)
(*      dtypes  : column name -> "object" | "number" | "datetime",         *)
(*      rows    : sequence of rows, a row being column name -> cell]       *)
(* A cell is <<>> (pandas' missing value: None / NaN / NaT) or <<v>>.      *)
(* Timestamps are integers (their chronological order); a float is the     *)
(* exact rational [num, den], NaN being 0/0.                               *)
(***************************************************************************)
EXTENDS Integers, Sequences, FiniteSets, TLC

VARIABLES
    D1,         \* Attributes table, loaded once                (main.py:82)
    D2,         \* Measurements table, loaded once              (main.py:82)
    D3,         \* Reference table, loaded once, never consumed (main.py:82)
    rowLimit,   \* the row cap handed to head()                 (main.py:33)
    loaded,     \* history: the store as load_data() returned it
    inflight,   \* requests accepted by the event loop, not yet run
    responses,  \* [req, resp] of the requests that have run
    call        \* the last direct call of a core function and its result

vars == <<D1, D2, D3, rowLimit, loaded, inflight, responses, call>>

----------------------------------------------------------------------------
(* Bounds of the model *)

MaxAttrRows == 2      \* rows of an Attributes table
MaxMeasRows == 3      \* rows of a Measurements table given to the engines
MaxStoreRows == 2     \* rows of D1 and of D2 in the served store
MaxDataRows == 3      \* rows of D2 in the direct calls of get_data
MaxRequests == 2      \* requests accepted over the life of the process
MaxRowLimit == 3      \* row caps tried by the Response Assembler checks

(* Program constants *)

TABLE_ROW_LIMIT == 400

FILTER_COLUMNS == <<"machine_id", "part_number", "tool_number">>

----------------------------------------------------------------------------
(* Cells, floats, sequences *)

NA == <<>>

IsNull(c) == c = NA

Cell(v) == <<v>>

Val(c) == c[1]

RECURSIVE GCD(_, _)
GCD(a, b) == IF b = 0 THEN a ELSE GCD(b, a % b)

\* float(v) of an integer v
Float(v) == [num |-> v, den |-> 1]

NaN == [num |-> 0, den |-> 0]

\* s / n as a float, n > 0, s >= 0
Ratio(s, n) == LET g == GCD(s, n) IN [num |-> s \div g, den |-> n \div g]

RECURSIVE SumSeq(_)
SumSeq(s) == IF s = <<>> THEN 0 ELSE Head(s) + SumSeq(Tail(s))

Min(S) == CHOOSE x \in S : \A y \in S : x <= y

RECURSIVE SortedSeq(_)
SortedSeq(S) ==
    IF S = {} THEN <<>> ELSE LET m == Min(S) IN <<m>> \o SortedSeq(S \ {m})

SeqsUpTo(S, n) == UNION {[1..k -> S] : k \in 0..n}

Range(s) == {s[i] : i \in 1..Len(s)}

Contains(s, x) == \E i \in 1..Len(s) : s[i] = x

\* (mutant) Series.sum() where Series.mean() is meant
MeanAsSum(cells) ==
    LET present == SelectSeq(cells, LAMBDA c : ~IsNull(c))
        vals == [i \in 1..Len(present) |-> Val(present[i])]
    IN  IF vals = <<>> THEN NaN ELSE Ratio(SumSeq(vals), 1)

\* Series.mean(): missing values are skipped (skipna=True); the mean of
\* nothing is NaN
Mean(cells) ==
    LET present == SelectSeq(cells, LAMBDA c : ~IsNull(c))
        vals == [i \in 1..Len(present) |-> Val(present[i])]
    IN  IF vals = <<>> THEN NaN ELSE Ratio(SumSeq(vals), Len(vals))

----------------------------------------------------------------------------
(* DataFrame operations *)

DataFrame(cols, dts, rws) == [columns |-> cols, dtypes |-> dts, rows |-> rws]

\* df.empty
Empty(df) == Len(df.rows) = 0 \/ Len(df.columns) = 0

\* "c" in df.columns
HasColumn(df, c) == Contains(df.columns, c)

\* Series.isin(values), values a list of cells: a missing value is in
\* `values` only when `values` holds a missing value
IsIn(c, values) == Contains(values, c)

\* df[df[col].isin(values)]: the matching rows, in order, dtypes kept
WhereIsIn(df, col, values) ==
    [df EXCEPT !.rows = SelectSeq(df.rows, LAMBDA r : IsIn(r[col], values))]

\* Series.unique().tolist(): the distinct cells in order of first appearance
RECURSIVE Unique(_)
Unique(cells) ==
    IF cells = <<>> THEN <<>>
    ELSE LET front == Unique(SubSeq(cells, 1, Len(cells) - 1))
             last == cells[Len(cells)]
         IN  IF Contains(front, last) THEN front ELSE Append(front, last)

\* df[col] as a list of cells
Column(df, col) == [i \in 1..Len(df.rows) |-> df.rows[i][col]]

\* pd.DataFrame(columns=cols): no rows, every column of dtype object
EmptyFrame(cols) ==
    DataFrame(cols, [c \in Range(cols) |-> "object"], <<>>)

\* df.head(n), n >= 0
HeadRows(df, n) ==
    [df EXCEPT !.rows = SubSeq(df.rows, 1, IF n < Len(df.rows) THEN n ELSE Len(df.rows))]

----------------------------------------------------------------------------
(* Query parameters: Optional[List[str]], None or a list of strings *)

None == <<>>

List(s) == <<s>>

\* Python truthiness of a query parameter: None and [] are falsy
Truthy(arg) == arg /= None /\ Len(arg[1]) > 0

\* the list's strings as cells, for isin
AsCells(arg) == [i \in 1..Len(arg[1]) |-> Cell(arg[1][i])]

----------------------------------------------------------------------------
(* Filter Engine *)

\* (mutant) the tool_number filter left out
filter_d1_skips_tool(d1, machine_ids, part_numbers, tool_numbers) ==
    LET df0 == d1
        df1 == IF Truthy(machine_ids)
               THEN WhereIsIn(df0, "machine_id", AsCells(machine_ids)) ELSE df0
        df2 == IF Truthy(part_numbers)
               THEN WhereIsIn(df1, "part_number", AsCells(part_numbers)) ELSE df1
    IN  df2

filter_d1(d1, machine_ids, part_numbers, tool_numbers) ==
    LET df0 == d1
        df1 == IF Truthy(machine_ids)
               THEN WhereIsIn(df0, "machine_id", AsCells(machine_ids)) ELSE df0
        df2 == IF Truthy(part_numbers)
               THEN WhereIsIn(df1, "part_number", AsCells(part_numbers)) ELSE df1
        df3 == IF Truthy(tool_numbers)
               THEN WhereIsIn(df2, "tool_number", AsCells(tool_numbers)) ELSE df2
    IN  df3

\* (mutant) an inner join on machine_id where a membership test is meant:
\* a Measurements row comes back once per Attributes row it matches
RECURSIVE MergeRows(_, _)
MergeRows(rws, keys) ==
    IF rws = <<>> THEN <<>>
    ELSE LET r == Head(rws)
             hits == SelectSeq(keys, LAMBDA k : k = r["machine_id"])
         IN  [i \in 1..Len(hits) |-> r] \o MergeRows(Tail(rws), keys)

filter_d2_by_d1_merge(d2, d1_filtered) ==
    IF Empty(d1_filtered)
    THEN EmptyFrame(d2.columns)
    ELSE [d2 EXCEPT !.rows = MergeRows(d2.rows, Column(d1_filtered, "machine_id"))]

filter_d2_by_d1(d2, d1_filtered) ==
    IF Empty(d1_filtered)
    THEN EmptyFrame(d2.columns)
    ELSE LET machines == Unique(Column(d1_filtered, "machine_id"))
         IN  WhereIsIn(d2, "machine_id", machines)

----------------------------------------------------------------------------
(* Aggregation Engine *)

\* Timestamp.isoformat()
Isoformat(ts) == [format |-> "isoformat", t |-> ts]

\* df.select_dtypes(include="number").columns.tolist()
NumericCols(df) == SelectSeq(df.columns, LAMBDA c : df.dtypes[c] = "number")

\* (mutant) no grouping: one row per input row that has a timestamp
GroupByMeanPerRow(df, target_col) ==
    LET stamped == SelectSeq(df.rows, LAMBDA r : ~IsNull(r["timestamp"]))
    IN  [i \in 1..Len(stamped) |->
            [timestamp |-> Val(stamped[i]["timestamp"]),
             val |-> Mean(<<stamped[i][target_col]>>)]]

\* df.groupby("timestamp")[target_col].mean().reset_index(): one row per
\* distinct non-missing timestamp (dropna=True), keys ascending (sort=True)
GroupByMean(df, target_col) ==
    LET stamped == SelectSeq(df.rows, LAMBDA r : ~IsNull(r["timestamp"]))
        keys == SortedSeq({Val(r["timestamp"]) : r \in Range(stamped)})
        group(k) == SelectSeq(stamped, LAMBDA r : Val(r["timestamp"]) = k)
    IN  [i \in 1..Len(keys) |->
            [timestamp |-> keys[i],
             val |-> Mean([j \in 1..Len(group(keys[i])) |->
                              group(keys[i])[j][target_col]])]]

\* grouped.sort_values("timestamp"): a stable sort, ascending
RECURSIVE SortValues(_)
SortValues(g) ==
    IF g = <<>> THEN <<>>
    ELSE LET rest == SortValues(Tail(g))
             x == Head(g)
             before == SelectSeq(rest, LAMBDA y : y.timestamp < x.timestamp)
             after == SelectSeq(rest, LAMBDA y : y.timestamp >= x.timestamp)
         IN  before \o <<x>> \o after

\* (mutant) the first numeric column, whatever its name
TargetColFirstNumeric(df) ==
    LET numeric_cols == NumericCols(df)
    IN  IF numeric_cols /= <<>> THEN Cell(numeric_cols[1]) ELSE None

\* the target column of build_avg_time_series, None when there is none
TargetCol(df) ==
    LET numeric_cols == NumericCols(df)
    IN  IF Contains(numeric_cols, "value") THEN Cell("value")
        ELSE IF numeric_cols /= <<>> THEN Cell(numeric_cols[1])
        ELSE None

build_avg_time_series(df) ==
    IF Empty(df) \/ ~HasColumn(df, "timestamp") THEN <<>>
    ELSE IF TargetCol(df) = None THEN <<>>
    ELSE LET grouped == SortValues(GroupByMean(df, Val(TargetCol(df))))
         IN  [i \in 1..Len(grouped) |->
                 [timestamp |-> Isoformat(grouped[i].timestamp),
                  avg |-> grouped[i].val]]    \* float() of a float64

----------------------------------------------------------------------------
(* Handlers *)

\* Timestamp.strftime("%Y-%m-%d %H:%M:%S")
Strftime(ts) == [format |-> "%Y-%m-%d %H:%M:%S", t |-> ts]

\* Series.dt exists for datetime-like dtypes only; on any other dtype the
\* access raises AttributeError
DtRaises(df, col) == df.dtypes[col] /= "datetime"

\* rows["timestamp"] = rows["timestamp"].dt.strftime(...): NaT stays missing
FormatTimestamps(rows) ==
    [rows EXCEPT
        !.rows = [i \in 1..Len(rows.rows) |->
                    [rows.rows[i] EXCEPT
                        !["timestamp"] = IF IsNull(@) THEN NA
                                         ELSE Cell(Strftime(Val(@)))]],
        !.dtypes = [@ EXCEPT !["timestamp"] = "object"]]

\* rows.to_dict(orient="records")
ToDict(rows) == rows.rows

DataRequest(m, p, t) ==
    [op |-> "data", machine_id |-> m, part_number |-> p, tool_number |-> t]

FiltersRequest ==
    [op |-> "filters", machine_id |-> None, part_number |-> None,
     tool_number |-> None]

\* What a handler hands to JSONResponse (status "ok"), or the exception that
\* ends it (status "raised"); engines is the set of core functions it called.
\* The rendering of the content as JSON text is not modelled: the tables the
\* handlers are run on below hold no missing cell, so the content holds no NaN.
Ok(content, called) == [status |-> "ok", content |-> content, engines |-> called]

Raised(error, called) ==
    [status |-> "raised", content |-> [error |-> error], engines |-> called]

\* (mutant) get_data without its guard on an empty selection
get_data_unguarded(d1, d2, limit, machine_id, part_number, tool_number) ==
    LET d1_filtered == filter_d1(d1, machine_id, part_number, tool_number)
        d2_filtered == filter_d2_by_d1(d2, d1_filtered)
        rows == HeadRows(d2_filtered, limit)
        filtering == {"filter_d1", "filter_d2_by_d1"}
    IN  IF HasColumn(rows, "timestamp") /\ DtRaises(rows, "timestamp")
        THEN Raised("AttributeError", filtering)
        ELSE LET rows_out == ToDict(IF HasColumn(rows, "timestamp")
                                    THEN FormatTimestamps(rows) ELSE rows)
                 avg_series == build_avg_time_series(d2_filtered)
             IN  Ok([rows |-> rows_out, average |-> avg_series],
                    filtering \union {"build_avg_time_series"})

\* get_data with the store and the row cap as arguments
get_data(d1, d2, limit, machine_id, part_number, tool_number) ==
    IF ~(Truthy(machine_id) \/ Truthy(part_number) \/ Truthy(tool_number))
    THEN Ok([rows |-> <<>>, average |-> <<>>], {})
    ELSE LET d1_filtered == filter_d1(d1, machine_id, part_number, tool_number)
             d2_filtered == filter_d2_by_d1(d2, d1_filtered)
             rows == HeadRows(d2_filtered, limit)
             filtering == {"filter_d1", "filter_d2_by_d1"}
         IN  IF HasColumn(rows, "timestamp") /\ DtRaises(rows, "timestamp")
             THEN Raised("AttributeError", filtering)
             ELSE LET rows_out == ToDict(IF HasColumn(rows, "timestamp")
                                         THEN FormatTimestamps(rows) ELSE rows)
                      avg_series == build_avg_time_series(d2_filtered)
                  IN  Ok([rows |-> rows_out, average |-> avg_series],
                         filtering \union {"build_avg_time_series"})

\* sorted(...) of strings, over the strings of the model in their order
StringOrder == <<"M1", "M2", "P1", "P2", "T1", "T2">>

Sorted(cells) ==
    SelectSeq(StringOrder, LAMBDA v : Contains(cells, Cell(v)))

\* D1[col].dropna().unique().tolist()
DistinctValues(d1, col) ==
    Unique(SelectSeq(Column(d1, col), LAMBDA c : ~IsNull(c)))

get_filters(d1) ==
    Ok([col \in Range(FILTER_COLUMNS) |->
           IF HasColumn(d1, col) THEN Sorted(DistinctValues(d1, col)) ELSE <<>>],
       {})

\* (mutant) the handler keeps its filtered frame in the global D2
StoreAfterCachingFiltered(store, req) ==
    [store EXCEPT
        !.D2 = filter_d2_by_d1(store.D2,
                   filter_d1(store.D1, req.machine_id, req.part_number,
                             req.tool_number))]

\* The store after get_data has run: every frame the handler writes to is a
\* copy (d1.copy(), d2[...].copy(), head().copy()), so D1, D2, D3 are as before
StoreAfterGetData(store, req) == store

\* The store after get_filters has run: dropna/unique/tolist build new objects
StoreAfterGetFilters(store) == store

----------------------------------------------------------------------------
(* The tables load_data() can return.  pd.to_datetime has made D2's       *)
(* timestamp column, when there is one, of dtype datetime.                *)

ATTR_COLUMNS == <<"machine_id", "part_number", "tool_number">>

AttrFrame(rws) ==
    DataFrame(ATTR_COLUMNS, [c \in Range(ATTR_COLUMNS) |-> "object"], rws)

AttrFrames(machines, parts, tools, n) ==
    {AttrFrame(r) :
        r \in SeqsUpTo([machine_id : machines, part_number : parts,
                        tool_number : tools], n)}

\* Measurements with a numeric column named value
ValueFrames(machines, stamps, values, n) ==
    {DataFrame(<<"machine_id", "timestamp", "value">>,
               [machine_id |-> "object", timestamp |-> "datetime",
                value |-> "number"], r) :
        r \in SeqsUpTo([machine_id : machines, timestamp : stamps,
                        value : values], n)}

\* Measurements with two numeric columns, value not the first of them
PressureValueFrames(machines, stamps, pressures, values, n) ==
    {DataFrame(<<"machine_id", "timestamp", "pressure", "value">>,
               [machine_id |-> "object", timestamp |-> "datetime",
                pressure |-> "number", value |-> "number"], r) :
        r \in SeqsUpTo([machine_id : machines, timestamp : stamps,
                        pressure : pressures, value : values], n)}

\* Measurements whose only numeric columns are pressure and, after it, force
PressureFrames(machines, stamps, pressures, forces, n) ==
    {DataFrame(<<"machine_id", "timestamp", "pressure", "force">>,
               [machine_id |-> "object", timestamp |-> "datetime",
                pressure |-> "number", force |-> "number"], r) :
        r \in SeqsUpTo([machine_id : machines, timestamp : stamps,
                        pressure : pressures, force : forces], n)}

\* Measurements whose column named value holds strings
ObjectValueFrames(machines, stamps, values, pressures, n) ==
    {DataFrame(<<"machine_id", "timestamp", "value", "pressure">>,
               [machine_id |-> "object", timestamp |-> "datetime",
                value |-> "object", pressure |-> "number"], r) :
        r \in SeqsUpTo([machine_id : machines, timestamp : stamps,
                        value : values, pressure : pressures], n)}

\* Measurements with no numeric column
NoNumericFrames(machines, stamps, labels, n) ==
    {DataFrame(<<"machine_id", "timestamp", "status">>,
               [machine_id |-> "object", timestamp |-> "datetime",
                status |-> "object"], r) :
        r \in SeqsUpTo([machine_id : machines, timestamp : stamps,
                        status : labels], n)}

\* Measurements with no timestamp column
NoTimestampFrames(machines, values, n) ==
    {DataFrame(<<"machine_id", "value">>,
               [machine_id |-> "object", value |-> "number"], r) :
        r \in SeqsUpTo([machine_id : machines, value : values], n)}

ReferenceFrame ==
    DataFrame(<<"tool_number">>, [tool_number |-> "object"],
              <<[tool_number |-> Cell("T1")]>>)

Cells(S) == {Cell(v) : v \in S}

Store == [D1 |-> D1, D2 |-> D2, D3 |-> D3]

NoCall == [fn |-> "none"]

\* D1, D2, D3 = load_data()
Loaded(d1, d2, limit) ==
    /\ D1 = d1
    /\ D2 = d2
    /\ D3 = ReferenceFrame
    /\ rowLimit = limit
    /\ loaded = [D1 |-> d1, D2 |-> d2, D3 |-> ReferenceFrame]
    /\ inflight = {}
    /\ responses = {}
    /\ call = NoCall

----------------------------------------------------------------------------
(* The server: requests arrive while others wait; the event loop runs one  *)
(* handler at a time, and a handler has no await, so it runs to its end.   *)

ServedAttrFrames ==
    AttrFrames(Cells({"M1", "M2"}), Cells({"P1", "P2"}), Cells({"T1"}),
               MaxStoreRows)

ServedMeasFrames ==
    ValueFrames(Cells({"M1", "M2"}), Cells({1, 2}), Cells({10}), MaxStoreRows)
    \union NoTimestampFrames(Cells({"M1", "M2"}), Cells({10}), MaxStoreRows)

ServedRequests ==
    {FiltersRequest}
    \union {DataRequest(m, p, None) :
               m \in {None, List(<<"M1">>)}, p \in {None, List(<<"P1">>)}}

Init ==
    \E d1 \in ServedAttrFrames, d2 \in ServedMeasFrames :
        Loaded(d1, d2, TABLE_ROW_LIMIT)

Receive(req) ==
    /\ Cardinality(inflight) + Cardinality(responses) < MaxRequests
    /\ req \notin inflight
    /\ inflight' = inflight \union {req}
    /\ UNCHANGED <<D1, D2, D3, rowLimit, loaded, responses, call>>

HandleData(req) ==
    /\ req \in inflight
    /\ req.op = "data"
    /\ LET resp == get_data(D1, D2, rowLimit, req.machine_id, req.part_number,
                            req.tool_number)
           after == StoreAfterGetData(Store, req)
       IN  /\ responses' = responses \union {[req |-> req, resp |-> resp]}
           /\ D1' = after.D1
           /\ D2' = after.D2
           /\ D3' = after.D3
    /\ inflight' = inflight \ {req}
    /\ UNCHANGED <<rowLimit, loaded, call>>

HandleFilters(req) ==
    /\ req \in inflight
    /\ req.op = "filters"
    /\ LET resp == get_filters(D1)
           after == StoreAfterGetFilters(Store)
       IN  /\ responses' = responses \union {[req |-> req, resp |-> resp]}
           /\ D1' = after.D1
           /\ D2' = after.D2
           /\ D3' = after.D3
    /\ inflight' = inflight \ {req}
    /\ UNCHANGED <<rowLimit, loaded, call>>

Next ==
    \E req \in ServedRequests :
        \/ Receive(req)
        \/ HandleData(req)
        \/ HandleFilters(req)

Spec == Init /\ [][Next]_vars

----------------------------------------------------------------------------
(* Direct calls of the core functions, one call per behaviour, the         *)
(* arguments drawn from bounded sets.                                      *)

Idle ==
    /\ call = NoCall
    /\ UNCHANGED <<D1, D2, D3, rowLimit, loaded, inflight, responses>>

Args(machines, parts, tools) ==
    [machine_id : machines, part_number : parts, tool_number : tools]

(* filter_d1(D1, machine_id, part_number, tool_number) *)

FilterAttrFrames ==
    AttrFrames(Cells({"M1", "M2"}) \union {NA}, Cells({"P1", "P2"}),
               Cells({"T1", "T2"}), MaxAttrRows)

FilterArgs ==
    Args({None, List(<<>>), List(<<"M1">>), List(<<"M1", "M2">>)},
         {None, List(<<>>), List(<<"P1">>), List(<<"P2", "P1">>)},
         {None, List(<<>>), List(<<"T2">>), List(<<"T1", "T2">>)})

InitFilter ==
    \E d1 \in FilterAttrFrames : Loaded(d1, EmptyFrame(<<"machine_id">>), TABLE_ROW_LIMIT)

CallFilterD1(a) ==
    /\ Idle
    /\ call' = [fn |-> "filter_d1", d1 |-> D1, args |-> a,
                ret |-> filter_d1(D1, a.machine_id, a.part_number, a.tool_number)]

NextFilter == \E a \in FilterArgs : CallFilterD1(a)

SpecFilter == InitFilter /\ [][NextFilter]_vars

(* filter_d2_by_d1(D2, d1_filtered), D1 standing for d1_filtered *)

JoinAttrFrames ==
    AttrFrames(Cells({"M1", "M2"}) \union {NA}, Cells({"P1"}), Cells({"T1"}),
               MaxAttrRows)

JoinMeasFrames ==
    ValueFrames(Cells({"M1", "M2"}) \union {NA}, Cells({1}), Cells({10, 20}),
                MaxMeasRows)

InitJoin ==
    \E d1 \in JoinAttrFrames, d2 \in JoinMeasFrames :
        Loaded(d1, d2, TABLE_ROW_LIMIT)

CallFilterD2ByD1 ==
    /\ Idle
    /\ call' = [fn |-> "filter_d2_by_d1", d2 |-> D2, d1_filtered |-> D1,
                ret |-> filter_d2_by_d1(D2, D1)]

NextJoin == CallFilterD2ByD1

SpecJoin == InitJoin /\ [][NextJoin]_vars

(* build_avg_time_series(df), D2 standing for df *)

AvgFrames ==
    ValueFrames(Cells({"M1"}), Cells({1, 2}) \union {NA},
                Cells({10, 20, 30}) \union {NA}, MaxMeasRows)
    \union PressureValueFrames(Cells({"M1"}), Cells({1, 2}), Cells({1, 3}),
                              Cells({10, 20}), MaxMeasRows)
    \union PressureFrames(Cells({"M1"}), Cells({1, 2}), Cells({1, 3}),
                         Cells({5, 7}), MaxMeasRows)
    \union ObjectValueFrames(Cells({"M1"}), Cells({1, 2}), Cells({"x"}),
                            Cells({1, 3}), MaxMeasRows)
    \union NoNumericFrames(Cells({"M1"}), Cells({1, 2}), Cells({"ok"}),
                          MaxMeasRows)
    \union NoTimestampFrames(Cells({"M1"}), Cells({10, 20}), MaxMeasRows)

InitAvg ==
    \E df \in AvgFrames : Loaded(AttrFrame(<<>>), df, TABLE_ROW_LIMIT)

CallBuildAvg ==
    /\ Idle
    /\ call' = [fn |-> "build_avg_time_series", df |-> D2,
                ret |-> build_avg_time_series(D2)]

NextAvg == CallBuildAvg

SpecAvg == InitAvg /\ [][NextAvg]_vars

(* get_data(machine_id, part_number, tool_number) over a store and a row cap *)

DataAttrFrames ==
    AttrFrames(Cells({"M1", "M2"}), Cells({"P1", "P2"}), Cells({"T1"}),
               MaxStoreRows)

DataMeasFrames ==
    ValueFrames(Cells({"M1", "M2"}), Cells({1}), Cells({10, 20}), MaxDataRows)
    \union NoTimestampFrames(Cells({"M1", "M2"}), Cells({10}), MaxDataRows)

DataArgs ==
    Args({None, List(<<>>), List(<<"M1">>), List(<<"M1", "M2">>)},
         {None, List(<<"P1">>)},
         {None, List(<<>>), List(<<"T2">>)})

RowLimits == 0..MaxRowLimit \union {TABLE_ROW_LIMIT}

InitData ==
    \E d1 \in DataAttrFrames, d2 \in DataMeasFrames, limit \in RowLimits :
        Loaded(d1, d2, limit)

CallGetData(a) ==
    /\ Idle
    /\ call' = [fn |-> "get_data", args |-> a,
                ret |-> get_data(D1, D2, rowLimit, a.machine_id, a.part_number,
                                 a.tool_number)]

NextData == \E a \in DataArgs : CallGetData(a)

SpecData == InitData /\ [][NextData]_vars

----------------------------------------------------------------------------
(* Properties.  The definitions below state what is claimed of the code   *)
(* in terms of the tables alone; they are not translations of the code.   *)

\* the values a selection names for a column (none when absent or empty)
Chosen(a, col) == IF a[col] = None THEN {} ELSE Range(a[col][1])

\* row r satisfies selection a: every constrained column holds a chosen value
Satisfies(a, r) ==
    \A col \in {"machine_id", "part_number", "tool_number"} :
        Chosen(a, col) = {} \/ (r[col] /= NA /\ Val(r[col]) \in Chosen(a, col))

Constrains(a) ==
    \E col \in {"machine_id", "part_number", "tool_number"} : Chosen(a, col) /= {}

\* the target cells of the rows of df stamped t
GroupCells(df, col, t) ==
    LET g == SelectSeq(df.rows, LAMBDA r : r["timestamp"] = Cell(t))
    IN  [i \in 1..Len(g) |-> g[i][col]]

Present(cells) ==
    LET p == SelectSeq(cells, LAMBDA c : c /= NA)
    IN  [i \in 1..Len(p) |-> Val(p[i])]

\* float f is exactly the arithmetic mean of the integers vals
IsMeanOf(f, vals) ==
    /\ vals /= <<>>
    /\ f.den > 0
    /\ f.num * Len(vals) = SumSeq(vals) * f.den

\* df has rows, a timestamp column and a numeric column
Usable(df) ==
    /\ df.rows /= <<>>
    /\ "timestamp" \in Range(df.columns)
    /\ \E c \in Range(df.columns) : df.dtypes[c] = "number"

Stamps(df) ==
    {Val(r["timestamp"]) : r \in {x \in Range(df.rows) : x["timestamp"] /= NA}}

AvgCalled == call.fn = "build_avg_time_series"

(* ---- C3 ---- *)

\* C3: filter_d1 returns exactly the source rows that hold, in every column
\* whose selected list is non-empty, a value of that list (AND across columns,
\* an absent or empty column constrains nothing), in source order; filtering
\* the result again with the same selection changes nothing.
C3_FilterAttributesExact ==
    call.fn = "filter_d1" =>
        LET a == call.args
            keeps(r) == Satisfies(a, r)
        IN  /\ call.ret.columns = call.d1.columns
            /\ call.ret.rows = SelectSeq(call.d1.rows, keeps)
            /\ filter_d1(call.ret, a.machine_id, a.part_number, a.tool_number)
                   = call.ret

\* two columns constrained, a third empty, and the filter keeps the first
\* row of two and drops the second
C3_Witness ==
    /\ call.fn = "filter_d1"
    /\ Truthy(call.args.machine_id)
    /\ Truthy(call.args.tool_number)
    /\ call.args.part_number = List(<<>>)
    /\ Len(call.d1.rows) = 2
    /\ call.ret.rows = <<call.d1.rows[1]>>
    /\ call.d1.rows[1] /= call.d1.rows[2]

(* ---- C4 ---- *)

\* C4: filter_d2_by_d1 is a semi-join: it returns exactly the Measurements
\* rows whose machine_id occurs in the Attributes subset, each once and in
\* order, under the Measurements columns; an empty subset gives zero rows
\* under the Measurements columns.
C4_SemiJoin ==
    call.fn = "filter_d2_by_d1" =>
        LET ids == {r["machine_id"] : r \in Range(call.d1_filtered.rows)}
            member(r) == r["machine_id"] \in ids
        IN  /\ call.ret.columns = call.d2.columns
            /\ call.ret.rows = SelectSeq(call.d2.rows, member)
            /\ (call.d1_filtered.rows = <<>> => call.ret.rows = <<>>)

\* two Attributes rows share a machine_id, and Measurements has a row of that
\* machine and a row of another
C4_Witness ==
    /\ call.fn = "filter_d2_by_d1"
    /\ Len(call.d1_filtered.rows) = 2
    /\ call.d1_filtered.rows[1]["machine_id"] = call.d1_filtered.rows[2]["machine_id"]
    /\ Len(call.d2.rows) >= 2
    /\ Len(call.ret.rows) >= 1
    /\ Len(call.ret.rows) < Len(call.d2.rows)

(* ---- C5 ---- *)

\* C5: over a table with rows, a timestamp column and a numeric column,
\* build_avg_time_series emits one point per distinct timestamp of the input
\* and the points are strictly ascending by timestamp.
C5_OnePointPerTimestampAscending ==
    AvgCalled /\ Usable(call.df) =>
        /\ Len(call.ret) = Cardinality(Stamps(call.df))
        /\ {call.ret[i].timestamp : i \in 1..Len(call.ret)}
               = {Isoformat(t) : t \in Stamps(call.df)}
        /\ \A i, j \in 1..Len(call.ret) :
               i < j => call.ret[i].timestamp.t < call.ret[j].timestamp.t

\* the input holds a timestamp twice and its rows are not in time order
C5_Witness ==
    /\ AvgCalled
    /\ Usable(call.df)
    /\ Len(call.df.rows) = 3
    /\ call.df.rows[1]["timestamp"] = Cell(2)
    /\ call.df.rows[2]["timestamp"] = Cell(1)
    /\ call.df.rows[3]["timestamp"] = Cell(2)
    /\ Len(call.ret) = 2

(* ---- C6 ---- *)

ScenarioA ==
    DataFrame(<<"machine_id", "timestamp", "value">>,
              [machine_id |-> "object", timestamp |-> "datetime",
               value |-> "number"],
              <<[machine_id |-> Cell("M1"), timestamp |-> Cell(1), value |-> Cell(10)],
                [machine_id |-> Cell("M1"), timestamp |-> Cell(1), value |-> Cell(20)],
                [machine_id |-> Cell("M1"), timestamp |-> Cell(2), value |-> Cell(30)]>>)

\* C6: the avg of every emitted point is the arithmetic mean of the target
\* column over the input rows of the point's timestamp (those rows holding a
\* value each); a group of one row gives that row's value; values 10, 20 at T1
\* and 30 at T2 give [{T1, 15}, {T2, 30}].
C6_AvgIsGroupMean ==
    AvgCalled =>
        /\ \A i \in 1..Len(call.ret) :
               LET cells == GroupCells(call.df, Val(TargetCol(call.df)),
                                       call.ret[i].timestamp.t)
               IN  (\A k \in 1..Len(cells) : cells[k] /= NA) =>
                       /\ IsMeanOf(call.ret[i].avg, Present(cells))
                       /\ Len(cells) = 1 => call.ret[i].avg = Float(Val(cells[1]))
        /\ call.df = ScenarioA =>
               call.ret = <<[timestamp |-> Isoformat(1), avg |-> Float(15)],
                            [timestamp |-> Isoformat(2), avg |-> Float(30)]>>

\* Scenario A has been aggregated
C6_Witness == AvgCalled /\ call.df = ScenarioA /\ Len(call.ret) = 2

(* ---- C7 ---- *)

\* C7: the target is the numeric column named value when there is one, else
\* the first numeric column in column order; with no numeric column, no rows
\* or no timestamp column the result is the empty sequence.
C7_TargetColumnPolicy ==
    AvgCalled =>
        LET df == call.df
            numeric == {i \in 1..Len(df.columns) :
                           df.dtypes[df.columns[i]] = "number"}
            expected == IF \E i \in numeric : df.columns[i] = "value"
                        THEN "value" ELSE df.columns[Min(numeric)]
        IN  IF df.rows = <<>> \/ "timestamp" \notin Range(df.columns)
               \/ numeric = {}
            THEN call.ret = <<>>
            ELSE /\ Len(call.ret) = Cardinality(Stamps(df))
                 /\ \A i \in 1..Len(call.ret) :
                        call.ret[i].avg
                           = Mean(GroupCells(df, expected, call.ret[i].timestamp.t))

\* Scenario D: no column named value, pressure the first numeric column, and
\* a point carrying the mean of pressure
C7_Witness ==
    /\ AvgCalled
    /\ call.df.columns = <<"machine_id", "timestamp", "pressure", "force">>
    /\ Len(call.df.rows) = 2
    /\ Len(call.ret) = 1
    /\ call.ret[1].avg = Float(2)

(* ---- C8 ---- *)

\* C8: rows with a missing target value are left out of their group's mean:
\* the avg of every emitted point is the arithmetic mean of the values present
\* in its timestamp group, and is a number.
C8_NullsExcludedFromMean ==
    AvgCalled =>
        \A i \in 1..Len(call.ret) :
            IsMeanOf(call.ret[i].avg,
                     Present(GroupCells(call.df, Val(TargetCol(call.df)),
                                        call.ret[i].timestamp.t)))

\* What does hold: the same, for the groups that hold a value at all, a group
\* of missing values alone being emitted with avg NaN.
C8_HoldsWhereAValueIsPresent ==
    AvgCalled =>
        \A i \in 1..Len(call.ret) :
            LET vals == Present(GroupCells(call.df, Val(TargetCol(call.df)),
                                           call.ret[i].timestamp.t))
            IN  IF vals = <<>> THEN call.ret[i].avg = NaN
                ELSE IsMeanOf(call.ret[i].avg, vals)

(* ---- C1, C2, C9: get_data ---- *)

GetDataCalled == call.fn = "get_data"

EmptyPayload == [rows |-> <<>>, average |-> <<>>]

\* the Measurements rows of a machine that some selected Attributes row names
Subset(a) ==
    LET ids == {r["machine_id"] : r \in {x \in Range(D1.rows) : Satisfies(a, x)}}
    IN  SelectSeq(D2.rows, LAMBDA r : r["machine_id"] \in ids)

\* a row as the response carries it: its timestamp, when it has one, as a
\* fixed-format string
Rendered(r) ==
    IF "timestamp" \in DOMAIN r
    THEN [r EXCEPT !["timestamp"] = IF @ = NA THEN NA ELSE Cell(Strftime(Val(@)))]
    ELSE r

\* C1: a selection with a non-empty column that matches no Attributes row
\* completes, whatever the Measurements table, with the payload
\* {rows: [], average: []}.
C1_EmptyMatchGivesEmptyPayload ==
    /\ GetDataCalled
    /\ Constrains(call.args)
    /\ \A r \in Range(D1.rows) : ~Satisfies(call.args, r)
    => /\ call.ret.status = "ok"
       /\ call.ret.content = EmptyPayload

\* What does hold: the same over a Measurements table with no timestamp
\* column; with one, the request ends in AttributeError.
C1_HoldsWithoutTimestampColumn ==
    /\ GetDataCalled
    /\ Constrains(call.args)
    /\ \A r \in Range(D1.rows) : ~Satisfies(call.args, r)
    => IF "timestamp" \in Range(D2.columns)
       THEN call.ret.status = "raised"
       ELSE call.ret.status = "ok" /\ call.ret.content = EmptyPayload

\* C2: with the three selection columns absent or empty the request returns
\* {rows: [], average: []} and calls neither the Filter Engine nor the
\* Aggregation Engine, whatever the store holds.
C2_EmptySelectionShortCircuits ==
    GetDataCalled /\ ~Constrains(call.args) =>
        /\ call.ret.status = "ok"
        /\ call.ret.content = EmptyPayload
        /\ call.ret.engines = {}

\* nothing selected (one column absent, one an empty list) over a store whose
\* every Measurements row belongs to a machine of Attributes
C2_Witness ==
    /\ GetDataCalled
    /\ call.args.machine_id = List(<<>>)
    /\ call.args.part_number = None
    /\ call.args.tool_number = List(<<>>)
    /\ Len(D1.rows) >= 1
    /\ Len(D2.rows) >= 2
    /\ \A r \in Range(D2.rows) :
           \E x \in Range(D1.rows) : x["machine_id"] = r["machine_id"]
    /\ call.ret.content = EmptyPayload

\* C9: for a row cap R and a filtered subset of n rows, the response's rows
\* are the first min(R, n) rows of the subset in order, and average is the
\* aggregation of all n rows.
C9_RowsCappedAverageWhole ==
    GetDataCalled /\ Constrains(call.args) =>
        LET sub == Subset(call.args)
            k == IF rowLimit < Len(sub) THEN rowLimit ELSE Len(sub)
        IN  /\ call.ret.status = "ok"
            /\ call.ret.content.rows = [i \in 1..k |-> Rendered(sub[i])]
            /\ call.ret.content.average
                   = build_avg_time_series([D2 EXCEPT !.rows = sub])

\* What does hold: the same of every request that completes.
C9_HoldsWhenServed ==
    GetDataCalled /\ Constrains(call.args) /\ call.ret.status = "ok" =>
        LET sub == Subset(call.args)
            k == IF rowLimit < Len(sub) THEN rowLimit ELSE Len(sub)
        IN  /\ call.ret.content.rows = [i \in 1..k |-> Rendered(sub[i])]
            /\ call.ret.content.average
                   = build_avg_time_series([D2 EXCEPT !.rows = sub])

\* a cap of 2 cuts a subset of 3 rows whose aggregation needs the third
C9_TruncationReached ==
    /\ GetDataCalled
    /\ call.ret.status = "ok"
    /\ rowLimit = 2
    /\ Len(Subset(call.args)) = 3
    /\ Len(call.ret.content.rows) = 2
    /\ call.ret.content.average
           /= build_avg_time_series([D2 EXCEPT !.rows = SubSeq(Subset(call.args), 1, 2)])

(* ---- C10: the store under concurrent requests ---- *)

\* the response of a request run alone against the store as loaded
Alone(req) ==
    IF req.op = "filters"
    THEN get_filters(loaded.D1)
    ELSE get_data(loaded.D1, loaded.D2, rowLimit, req.machine_id,
                  req.part_number, req.tool_number)

====
